---- MODULE Spec2Model ----
(***************************************************************************)
(* Model of Engine/TreeRender.cpp: a TreeRender, its executions            *)
(* (TreeRenderExecutionData), the FrameViewRenderRunnable objects and the  *)
(* threads that run them (pool workers and the threads that call           *)
(* executeAvailableTasks).                                                 *)
(*                                                                         *)
(* A request (FrameViewRequest) of an execution is identified by the node  *)
(* of its effect.  Every step is one critical section of the code, or one  *)
(* call made with no lock held.  dependencyFreeRendersMutex is modelled    *)
(* explicitly because executeAvailableTasks keeps it across iterations.    *)
(***************************************************************************)
EXTENDS Integers, FiniteSets, Sequences, TLC

\* Number of nodes of the tree handed to TreeRender::create
MaxReq == 4

Nodes == 1..MaxReq

\* The node of CtorArgs::treeRootEffect
RootNode == 1

Exec == {"main", "sub"}
Workers == {"w1", "w2"}
Callers == {"qm", "qm2"}
Threads == Workers \cup Callers

\* ActionRetCodeEnum, and the predicate isFailureRetCode
RetCodes == {"OK", "Failed", "Aborted"}
FailureCodes == {"Failed", "Aborted"}

isFailureRetCode(stat) == stat \in FailureCodes

\* FrameViewRequest::FrameViewRequestStatusEnum
RequestStatus == {"NotRendered", "Rendered", "Failed", "Aborted"}

\* The values of nTasks the queue manager passes to executeAvailableTasks
NTasksArgs == {-1, 2}

\* A null FrameViewRequestPtr
NoRequest == <<"none", 0>>

Free == "free"

VARIABLES
    graph,                    \* input: the inputs of each node of the tree
    cached,                   \* input: nodes whose image is found in the cache by the request pass
    poolThreads,              \* input: the threads of QThreadPool::globalInstance()
    callerThreads,            \* input: the threads that call executeAvailableTasks
    state,                    \* TreeRenderPrivate::state
    outputRequest,            \* TreeRenderPrivate::outputRequest
    extraRequestedResults,    \* TreeRenderPrivate::extraRequestedResults
    aborted,                  \* TreeRenderPrivate::aborted, as the int it is read as
    ctorArgs,                 \* TreeRenderPrivate::ctorArgs: "set" or "null"
    phase,                    \* per execution: "none", "planning" (inside requestRender), "planned"
    execRoot,                 \* per execution: node of the treeRoot argument
    dfrAllocated,             \* per execution: dependencyFreeRenders.get() != 0
    dependencyFreeRenders,    \* per execution: *dependencyFreeRenders
    allRenderTasksToProcess,  \* per execution
    status,                   \* per execution: TreeRenderExecutionDataPrivate::status
    launchedRunnables,        \* per execution
    execOutputRequest,        \* per execution: TreeRenderExecutionDataPrivate::outputRequest
    mutex,                    \* per execution: holder of dependencyFreeRendersMutex
    reqStatus,                \* per execution and request: FrameViewRequest status
    dependencies,             \* per execution and request: dependencies not yet rendered
    poolQueue,                \* runnables handed to QThreadPool::start and not yet picked up
    thr,                      \* per thread: the runnable it is running
    call,                     \* per caller: its executeAvailableTasks call
    added,                    \* history: requests passed to addTaskToRender
    created,                  \* history: number of runnables created per request
    hookCount,                \* history: number of times the locked part of onTaskFinished ran per request
    readyAtFailure            \* history: the ready queue when status first became a failure

inputVars == <<graph, cached, poolThreads, callerThreads>>
treeVars == <<state, outputRequest, extraRequestedResults, aborted, ctorArgs>>
execVars == <<phase, execRoot, dfrAllocated, dependencyFreeRenders, allRenderTasksToProcess,
              status, launchedRunnables, execOutputRequest, mutex>>
reqVars == <<reqStatus, dependencies>>
threadVars == <<poolQueue, thr, call>>
histVars == <<added, created, hookCount, readyAtFailure>>

vars == <<inputVars, treeVars, execVars, reqVars, threadVars, histVars>>

----------------------------------------------------------------------------
(* The tree and the request pass (Effect::requestRender)                   *)

\* The trees given as input.  In a tree of size nodes an input of node n is
\* one of the next two nodes and every node is upstream of the root; the
\* nodes beyond size are not part of the project.
InputOffsets == {1, 2}

TreeOf(off, size) == [n \in Nodes |-> {n + k : k \in off[n]} \cap (1..size)]

Trees(size) ==
    {g \in {TreeOf(off, size) : off \in [Nodes -> SUBSET InputOffsets]} :
        /\ \A n \in Nodes : n > size => g[n] = {}
        /\ \A n \in (2..size) : \E m \in Nodes : n \in g[m]}

\* Size of the trees the executions of one tree render are run on together
MaxTreeReq == 2

\* Size of the trees of the executions checked under fair scheduling
MaxFairReq == 3

\* The dependencies requestRender wires for the request of node n:
\* a node found in the cache requests nothing upstream.
PlanDeps(n) == IF n \in cached THEN {} ELSE graph[n]

RECURSIVE Upstream(_)
Upstream(S) ==
    LET T == S \cup UNION {PlanDeps(n) : n \in S}
    IN  IF T = S THEN S ELSE Upstream(T)

\* The requests the request pass creates for an execution rooted at root
PlanNodes(root) == Upstream({root})

\* FrameViewRequest::getListeners: the inverse of the dependencies
getListeners(e, r) == {l \in PlanNodes(execRoot[e]) : r \in PlanDeps(l)}

\* FrameViewRequest::getNumDependencies
getNumDependencies(e, r) == Cardinality(dependencies[e][r])

----------------------------------------------------------------------------
IdleRunnable == [pc |-> "idle", exec |-> "main", req |-> 0, stat |-> "OK", arg |-> "OK"]
IdleCall == [pc |-> "idle", exec |-> "main", nTasksRemaining |-> 0, nTasksStarted |-> 0]

\* The ways TreeRender::create returns: init ran, the root is a GroupInput
\* without enclosing group or without real input, init threw
CreateOutcomes == {"ok", "noGroup", "noRealInput", "initThrew"}

\* create returned before calling init
initSkipped(outcome) == outcome \in {"noGroup", "noRealInput"}

\* Faulty variant of stateAfterCreate: the failure is not recorded
stateAfterCreate_ok(outcome) == "OK"

\* TreeRenderPrivate::state when create returns
stateAfterCreate(outcome) == IF outcome = "ok" THEN "OK" ELSE "Failed"

\* The state after TreeRender::create: init, when it ran, has stored the
\* arguments and given every extra node to sample a null result.
InitCreated(trees, cacheHits, extraNodes, pool, callers, outcomes) ==
    /\ graph \in trees
    /\ cached \in cacheHits
    /\ poolThreads = pool
    /\ callerThreads = callers
    /\ outputRequest = NoRequest
    /\ aborted = 0
    /\ \E outcome \in outcomes :
           /\ state = stateAfterCreate(outcome)
           /\ ctorArgs = IF initSkipped(outcome) THEN "null" ELSE "set"
           /\ \E extra \in extraNodes :
                  extraRequestedResults =
                      [n \in (IF initSkipped(outcome) THEN {} ELSE extra) |-> NoRequest]
    /\ phase = [e \in Exec |-> "none"]
    /\ execRoot = [e \in Exec |-> RootNode]
    /\ dfrAllocated = [e \in Exec |-> FALSE]
    /\ dependencyFreeRenders = [e \in Exec |-> {}]
    /\ allRenderTasksToProcess = [e \in Exec |-> {}]
    /\ status = [e \in Exec |-> "OK"]
    /\ launchedRunnables = [e \in Exec |-> {}]
    /\ execOutputRequest = [e \in Exec |-> NoRequest]
    /\ mutex = [e \in Exec |-> Free]
    /\ reqStatus = [e \in Exec |-> [n \in Nodes |-> "NotRendered"]]
    /\ dependencies = [e \in Exec |-> [n \in Nodes |-> {}]]
    /\ poolQueue = <<>>
    /\ thr = [t \in Threads |-> IdleRunnable]
    /\ call = [c \in Callers |-> IdleCall]
    /\ added = [e \in Exec |-> {}]
    /\ created = [e \in Exec |-> [n \in Nodes |-> 0]]
    /\ hookCount = [e \in Exec |-> [n \in Nodes |-> 0]]
    /\ readyAtFailure = [e \in Exec |-> {}]

\* create succeeded and one thread calls executeAvailableTasks
InitWith(trees, cacheHits, extraNodes, pool) ==
    InitCreated(trees, cacheHits, extraNodes, pool, {"qm"}, {"ok"})

NoneOrOne(S) == {{}} \cup {{n} : n \in S}

\* One main execution on a tree of MaxReq nodes
Init == InitWith(Trees(MaxReq), {{}}, {{}}, Workers)

\* One main execution on a tree of MaxFairReq nodes, run by a pool of one
\* thread and the thread that calls executeAvailableTasks
InitFair == InitWith(Trees(MaxFairReq), {{}}, {{}}, {"w1"})

\* One main execution on a tree of MaxReq nodes on which two threads call
\* executeAvailableTasks, with a pool of two threads
InitCallers == InitCreated(Trees(MaxReq), {{}}, {{}}, Workers, Callers, {"ok"})

\* Every way create returns, on a small tree with an extra node to sample
InitCreate ==
    InitCreated(Trees(MaxTreeReq), {{}}, NoneOrOne({RootNode, RootNode + 1}),
                {"w1"}, {"qm"}, CreateOutcomes)

\* A small tree with a cache hit and an extra node to sample (the root or its
\* first input), for the main execution and a sub-execution together, run by
\* a pool of one thread and the thread that calls executeAvailableTasks
InitTree ==
    InitWith(Trees(MaxTreeReq), NoneOrOne({RootNode, RootNode + 1}),
             NoneOrOne({RootNode, RootNode + 1}), {"w1"})

\* History: remember the ready queue an execution had when the step that
\* turns its status into a failure began
NoteFailure(e, newStatus, newReady) ==
    readyAtFailure' =
        IF ~isFailureRetCode(status[e]) /\ isFailureRetCode(newStatus)
        THEN [readyAtFailure EXCEPT ![e] = newReady]
        ELSE readyAtFailure

----------------------------------------------------------------------------
(* TreeRenderPrivate::createExecutionDataInternal and the request pass     *)

\* The state of the requests requestRender allocates: their dependencies are
\* wired before addTaskToRender is called on them, and a request whose image
\* is in the cache is already rendered.
PlannedDependencies(root) == [n \in Nodes |-> IF n \in PlanNodes(root) THEN PlanDeps(n) ELSE {}]
PlannedStatus(root) == [n \in Nodes |-> IF n \in PlanNodes(root) /\ n \in cached THEN "Rendered" ELSE "NotRendered"]

\* resolveStat is the status returned by getTreeRootPlane / getTreeRootRoD
createExecutionDataInternal(e, root, resolveStat) ==
    /\ phase[e] = "none"
    /\ execRoot' = [execRoot EXCEPT ![e] = root]
    /\ IF isFailureRetCode(state)
       THEN /\ phase' = [phase EXCEPT ![e] = "planned"]
            /\ UNCHANGED <<dfrAllocated, status, reqStatus, dependencies>>
       ELSE IF isFailureRetCode(resolveStat)
       THEN /\ phase' = [phase EXCEPT ![e] = "planned"]
            /\ status' = [status EXCEPT ![e] = resolveStat]
            /\ UNCHANGED <<dfrAllocated, reqStatus, dependencies>>
       ELSE /\ phase' = [phase EXCEPT ![e] = "planning"]
            /\ dfrAllocated' = [dfrAllocated EXCEPT ![e] = TRUE]
            /\ reqStatus' = [reqStatus EXCEPT ![e] = PlannedStatus(root)]
            /\ dependencies' = [dependencies EXCEPT ![e] = PlannedDependencies(root)]
            /\ UNCHANGED status
    /\ NoteFailure(e, IF isFailureRetCode(state) THEN status[e] ELSE resolveStat, {})
    /\ UNCHANGED <<inputVars, treeVars, dependencyFreeRenders, allRenderTasksToProcess,
                   launchedRunnables, execOutputRequest, mutex, threadVars,
                   added, created, hookCount>>

CreateMainExecutionData ==
    /\ ctorArgs = "set"
    /\ \E resolveStat \in {"OK", "Failed"} :
           createExecutionDataInternal("main", RootNode, resolveStat)

\* What reading the members of a null ctorArgs can do: the process stops, or
\* the reads return some values and the call goes on
NullReadOutcomes == {"crash", "goesOn"}

\* createMainExecutionData on a tree render whose init was never called:
\* the arguments of createExecutionDataInternal are read through the null
\* ctorArgs before the state is tested
CreateMainExecutionDataNullArgs ==
    /\ ctorArgs = "null"
    /\ phase["main"] = "none"
    /\ \E outcome \in NullReadOutcomes, root \in 1..MaxTreeReq :
           IF outcome = "crash"
           THEN /\ phase' = [phase EXCEPT !["main"] = "crashed"]
                /\ UNCHANGED <<inputVars, treeVars, execRoot, dfrAllocated, dependencyFreeRenders,
                               allRenderTasksToProcess, status, launchedRunnables,
                               execOutputRequest, mutex, reqVars, threadVars, histVars>>
           ELSE createExecutionDataInternal("main", root, "OK")

CreateSubExecutionData ==
    /\ phase["main"] = "planned"
    /\ \E root \in 1..MaxTreeReq, resolveStat \in {"OK", "Failed"} :
           createExecutionDataInternal("sub", root, resolveStat)

\* The extra nodes to sample that have no result yet
EmptySlots == {n \in DOMAIN extraRequestedResults : extraRequestedResults[n] = NoRequest}

\* The main execution has nothing left to release and no runnable of the
\* tree render is queued or running
MainExecutionDone ==
    /\ phase["main"] = "planned"
    /\ dependencyFreeRenders["main"] = {}
    /\ poolQueue = <<>>
    /\ \A t \in Threads : thr[t].pc = "idle"
    /\ \A c \in Callers : call[c].pc = "idle"

\* TreeRender::getExtraRequestedResultsExecutionData called after the main
\* execution: a sub-execution for the extra node whose slot is empty (with no
\* empty slot the loop body, which reads ctorArgs, is not run and the list
\* returned is empty)
GetExtraRequestedResultsExecutionData ==
    /\ MainExecutionDone
    /\ \E n \in EmptySlots, resolveStat \in {"OK", "Failed"} :
           createExecutionDataInternal("sub", n, resolveStat)

\* Faulty variants of insertIfDependencyFree: the test on the number of
\* dependencies is dropped; nothing is inserted
insertIfDependencyFree_always(ready, r, numDeps) == ready \cup {r}
insertIfDependencyFree_never(ready, r, numDeps) == ready

\* The insertion addTaskToRender makes in the dependency-free set
insertIfDependencyFree(ready, r, numDeps) ==
    IF numDeps = 0 THEN ready \cup {r} ELSE ready

\* TreeRenderExecutionData::addTaskToRender
addTaskToRender(e, r) ==
    /\ mutex[e] = Free
    /\ allRenderTasksToProcess' = [allRenderTasksToProcess EXCEPT ![e] = @ \cup {r}]
    /\ dependencyFreeRenders' =
           [dependencyFreeRenders EXCEPT ![e] = insertIfDependencyFree(@, r, getNumDependencies(e, r))]
    /\ added' = [added EXCEPT ![e] = @ \cup {r}]

\* The request pass calls addTaskToRender on a request once the requests of
\* its inputs have been added.
ToAdd(e) == PlanNodes(execRoot[e]) \ added[e]
NextToAdd(e) == CHOOSE n \in ToAdd(e) : \A m \in ToAdd(e) : m <= n

RequestPassStep(e) ==
    /\ phase[e] = "planning"
    /\ ToAdd(e) # {}
    /\ addTaskToRender(e, NextToAdd(e))
    /\ UNCHANGED <<inputVars, treeVars, phase, execRoot, dfrAllocated, status, launchedRunnables,
                   execOutputRequest, mutex, reqVars, threadVars,
                   created, hookCount, readyAtFailure>>

\* The end of createExecutionDataInternal: requestRender returned stat
RequestPassReturns(e, stat) ==
    /\ phase[e] = "planning"
    /\ isFailureRetCode(stat) \/ ToAdd(e) = {}
    /\ phase' = [phase EXCEPT ![e] = "planned"]
    /\ IF isFailureRetCode(stat)
       THEN /\ status' = [status EXCEPT ![e] = stat]
            /\ UNCHANGED execOutputRequest
       ELSE /\ status' = [status EXCEPT ![e] =
                            IF dependencyFreeRenders[e] = {} THEN "Failed" ELSE stat]
            /\ execOutputRequest' = [execOutputRequest EXCEPT ![e] = <<e, execRoot[e]>>]
    /\ NoteFailure(e, IF dependencyFreeRenders[e] = {} THEN "Failed" ELSE stat, dependencyFreeRenders[e])
    /\ UNCHANGED <<inputVars, treeVars, execRoot, dfrAllocated, dependencyFreeRenders,
                   allRenderTasksToProcess, launchedRunnables, mutex, reqVars, threadVars,
                   added, created, hookCount>>

----------------------------------------------------------------------------
(* TreeRenderExecutionData::executeAvailableTasks                          *)

NewRunnable(e, r) == [pc |-> "run", exec |-> e, req |-> r, stat |-> "OK", arg |-> "OK"]

\* Faulty variant of loopCondition: nothing is released once the render is aborted
loopCondition_unlessAborted(nTasksRemaining, ready) ==
    aborted <= 0 /\ (nTasksRemaining = -1 \/ nTasksRemaining > 0) /\ ready # {}

\* The loop condition of executeAvailableTasks
loopCondition(nTasksRemaining, ready) ==
    (nTasksRemaining = -1 \/ nTasksRemaining > 0) /\ ready # {}

\* Faulty variant of launchInPool: the status of the execution is not tested
launchInPool_ignoresExecStatus(requestStatus, execStatus) == requestStatus = "NotRendered"

\* The test that sends a runnable to the thread pool instead of running it inline
launchInPool(requestStatus, execStatus) ==
    requestStatus = "NotRendered" /\ ~isFailureRetCode(execStatus)

\* Faulty variant of inlineRunMutex: the mutex is kept during the inline run
inlineRunMutex_kept(holder) == holder

\* The holder of dependencyFreeRendersMutex while runnable->run() is called
\* inline: k.unlock() has released it
inlineRunMutex(holder) == Free

\* Entry of executeAvailableTasks up to the loop: takes the mutex, returns 0
\* when the dependency-free set was never allocated.
ExecuteAvailableTasks(c, e, nTasks) ==
    /\ c \in callerThreads
    /\ call[c].pc = "idle"
    /\ phase[e] = "planned"
    /\ mutex[e] = Free
    /\ IF ~dfrAllocated[e]
       THEN /\ call' = [call EXCEPT ![c] = IdleCall]
            /\ UNCHANGED mutex
       ELSE /\ call' = [call EXCEPT ![c] = [pc |-> "loop", exec |-> e,
                                          nTasksRemaining |-> nTasks, nTasksStarted |-> 0]]
            /\ mutex' = [mutex EXCEPT ![e] = c]
    /\ UNCHANGED <<inputVars, treeVars, phase, execRoot, dfrAllocated, dependencyFreeRenders,
                   allRenderTasksToProcess, status, launchedRunnables, execOutputRequest,
                   reqVars, poolQueue, thr, histVars>>

\* One iteration of the loop of executeAvailableTasks, or its return
ExecuteLoop(c) ==
    LET e == call[c].exec
        rem == call[c].nTasksRemaining
    IN
    /\ call[c].pc = "loop"
    /\ IF loopCondition(rem, dependencyFreeRenders[e])
       THEN \E r \in dependencyFreeRenders[e] :
              /\ dependencyFreeRenders' = [dependencyFreeRenders EXCEPT ![e] = @ \ {r}]
              /\ created' = [created EXCEPT ![e][r] = @ + 1]
              /\ IF launchInPool(reqStatus[e][r], status[e])
                 THEN /\ launchedRunnables' = [launchedRunnables EXCEPT ![e] = @ \cup {r}]
                      /\ poolQueue' = Append(poolQueue, <<e, r>>)
                      /\ call' = [call EXCEPT ![c].nTasksRemaining = rem - 1,
                                              ![c].nTasksStarted = @ + 1]
                      /\ UNCHANGED <<mutex, thr>>
                 ELSE /\ mutex' = [mutex EXCEPT ![e] = inlineRunMutex(c)]
                      /\ thr' = [thr EXCEPT ![c] = NewRunnable(e, r)]
                      /\ call' = [call EXCEPT ![c].pc = "inline"]
                      /\ UNCHANGED <<launchedRunnables, poolQueue>>
       ELSE /\ mutex' = [mutex EXCEPT ![e] = Free]
            /\ call' = [call EXCEPT ![c] = IdleCall]
            /\ UNCHANGED <<dependencyFreeRenders, created, launchedRunnables, poolQueue, thr>>
    /\ UNCHANGED <<inputVars, treeVars, phase, execRoot, dfrAllocated, allRenderTasksToProcess,
                   status, execOutputRequest, reqVars,
                   added, hookCount, readyAtFailure>>

\* k.relock() after an inline run
Relock(c) ==
    /\ call[c].pc = "relock"
    /\ mutex[call[c].exec] = Free
    /\ mutex' = [mutex EXCEPT ![call[c].exec] = c]
    /\ call' = [call EXCEPT ![c].pc = "loop"]
    /\ UNCHANGED <<inputVars, treeVars, phase, execRoot, dfrAllocated, dependencyFreeRenders,
                   allRenderTasksToProcess, status, launchedRunnables, execOutputRequest,
                   reqVars, poolQueue, thr, histVars>>

\* A thread of the pool picks up a queued runnable
PoolStart(w) ==
    /\ w \in poolThreads
    /\ thr[w].pc = "idle"
    /\ poolQueue # <<>>
    /\ thr' = [thr EXCEPT ![w] = NewRunnable(Head(poolQueue)[1], Head(poolQueue)[2])]
    /\ poolQueue' = Tail(poolQueue)
    /\ UNCHANGED <<inputVars, treeVars, execVars, reqVars, call, histVars>>

----------------------------------------------------------------------------
(* FrameViewRenderRunnable::run                                            *)

\* Faulty variant of launchesRender: the status read at entry is ignored
launchesRender_always(stat) == TRUE

\* The test run makes on the status read at entry before it calls
\* launchNodeRender
launchesRender(stat) == ~isFailureRetCode(stat)

\* sharedData->getStatus() at the entry of run
RunGetStatus(t) ==
    LET e == thr[t].exec IN
    /\ thr[t].pc = "run"
    /\ mutex[e] = Free
    /\ thr' = [thr EXCEPT ![t].stat = status[e],
                          ![t].pc = IF launchesRender(status[e]) THEN "render" ELSE "finish"]
    /\ UNCHANGED <<inputVars, treeVars, execVars, reqVars, poolQueue, call, histVars>>

\* The status a request has after launchNodeRender returned res
renderedStatus(res) == IF isFailureRetCode(res) THEN res ELSE "Rendered"

\* renderClone->launchNodeRender(sharedData, request) returns res
LaunchNodeRender(t, res) ==
    LET e == thr[t].exec
        r == thr[t].req
    IN
    /\ thr[t].pc = "render"
    /\ reqStatus' = [reqStatus EXCEPT ![e][r] = renderedStatus(res)]
    /\ thr' = [thr EXCEPT ![t].stat = res, ![t].pc = "finish"]
    /\ UNCHANGED <<inputVars, treeVars, execVars, dependencies, poolQueue, call, histVars>>

----------------------------------------------------------------------------
(* TreeRenderExecutionDataPrivate::onTaskFinished                          *)

\* Faulty variant of statusAfterTask: the status of every task is stored
statusAfterTask_overwrite(execStatus, requestStatus) == requestStatus

\* Faulty variant of statusAfterTask: the failure of a task is not recorded
statusAfterTask_notRecorded(execStatus, requestStatus) == execStatus

\* The status of the execution after a task finished with requestStatus
statusAfterTask(execStatus, requestStatus) ==
    IF isFailureRetCode(requestStatus) THEN requestStatus ELSE execStatus

\* Faulty variant of storeStatus: a failure is stored in every execution
storeStatus_everyExecution(statuses, e, newStatus) ==
    [x \in Exec |-> IF isFailureRetCode(newStatus) THEN newStatus ELSE statuses[x]]

\* The assignment to the status member of the execution the task belongs to
storeStatus(statuses, e, newStatus) == [statuses EXCEPT ![e] = newStatus]

\* Faulty variant of removeTaskFromGlobalTaskList: the task is not erased
removeTaskFromGlobalTaskList_noErase(tasks, request) == tasks

removeTaskFromGlobalTaskList(tasks, request) == tasks \ {request}

\* FrameViewRequest::markDependencyAsRendered: the dependencies left
markDependencyAsRendered(deps, request) == deps \ {request}

\* Faulty variants of removeDependencyLinkFromRequest: every listener is
\* promoted whatever its number of dependencies left; the early return on a
\* failed execution is missing; no listener is promoted
removeDependencyLinkFromRequest_promoteAll(e, request, execStatus) ==
    IF isFailureRetCode(execStatus)
    THEN [dependencies |-> dependencies[e], ready |-> dependencyFreeRenders[e]]
    ELSE [dependencies |->
              [l \in Nodes |-> IF l \in getListeners(e, request)
                               THEN dependencies[e][l] \ {request}
                               ELSE dependencies[e][l]],
          ready |-> dependencyFreeRenders[e] \cup getListeners(e, request)]

removeDependencyLinkFromRequest_noStatusCheck(e, request, execStatus) ==
    [dependencies |->
         [l \in Nodes |-> IF l \in getListeners(e, request)
                          THEN dependencies[e][l] \ {request}
                          ELSE dependencies[e][l]],
     ready |->
         dependencyFreeRenders[e] \cup
             {l \in getListeners(e, request) : dependencies[e][l] \ {request} = {}}]

removeDependencyLinkFromRequest_noPromotion(e, request, execStatus) ==
    [dependencies |->
         [l \in Nodes |-> IF l \in getListeners(e, request)
                          THEN dependencies[e][l] \ {request}
                          ELSE dependencies[e][l]],
     ready |-> dependencyFreeRenders[e]]

\* removeDependencyLinkFromRequest: the dependencies of every request of the
\* execution and its dependency-free set afterwards
removeDependencyLinkFromRequest(e, request, execStatus) ==
    IF isFailureRetCode(execStatus)
    THEN [dependencies |-> dependencies[e], ready |-> dependencyFreeRenders[e]]
    ELSE [dependencies |->
              [l \in Nodes |-> IF l \in getListeners(e, request)
                               THEN markDependencyAsRendered(dependencies[e][l], request)
                               ELSE dependencies[e][l]],
          ready |->
              dependencyFreeRenders[e] \cup
                  {l \in getListeners(e, request) :
                      Cardinality(markDependencyAsRendered(dependencies[e][l], request)) = 0}]

\* The critical section of onTaskFinished
OnTaskFinished(t) ==
    LET e == thr[t].exec
        request == thr[t].req
        newStatus == statusAfterTask(status[e], thr[t].stat)
        links == removeDependencyLinkFromRequest(e, request, newStatus)
    IN
    /\ thr[t].pc = "finish"
    /\ mutex[e] = Free
    /\ status' = storeStatus(status, e, newStatus)
    /\ allRenderTasksToProcess' =
           [allRenderTasksToProcess EXCEPT ![e] = removeTaskFromGlobalTaskList(@, request)]
    /\ dependencies' = [dependencies EXCEPT ![e] = links.dependencies]
    /\ dependencyFreeRenders' = [dependencyFreeRenders EXCEPT ![e] = links.ready]
    /\ hookCount' = [hookCount EXCEPT ![e][request] = @ + 1]
    /\ NoteFailure(e, newStatus, dependencyFreeRenders[e])
    /\ thr' = [thr EXCEPT ![t].pc = "report"]
    /\ UNCHANGED <<inputVars, treeVars, phase, execRoot, dfrAllocated, launchedRunnables,
                   execOutputRequest, mutex, reqStatus, poolQueue, call,
                   added, created>>

\* render->setResults(request, status): the argument is the execution's
\* status member, read after the critical section was left
ReadStatusArgument(t) ==
    LET e == thr[t].exec IN
    /\ thr[t].pc = "report"
    /\ thr' = [thr EXCEPT ![t].arg = status[e],
                          ![t].pc = IF isFailureRetCode(status[e]) THEN "setState" ELSE "setRequest"]
    /\ UNCHANGED <<inputVars, treeVars, execVars, reqVars, poolQueue, call, histVars>>

----------------------------------------------------------------------------
(* TreeRender::setResults                                                  *)

\* The first critical section of setResults (stateMutex), entered for a failure status
SetResultsState(t) ==
    /\ thr[t].pc = "setState"
    /\ state' = thr[t].arg
    /\ thr' = [thr EXCEPT ![t].pc = "setRequest"]
    /\ UNCHANGED <<inputVars, outputRequest, extraRequestedResults, aborted, ctorArgs, execVars, reqVars,
                   poolQueue, call, histVars>>

\* Faulty variants of extraResultsAfter: a filled slot is written again;
\* no slot is ever written
extraResultsAfter_overwrite(extras, node, request) ==
    IF node \in DOMAIN extras
    THEN [extras EXCEPT ![node] = request]
    ELSE extras

extraResultsAfter_never(extras, node, request) == extras

\* The slot of the extra results map after a request of node was reported
extraResultsAfter(extras, node, request) ==
    IF node \in DOMAIN extras /\ extras[node] = NoRequest
    THEN [extras EXCEPT ![node] = request]
    ELSE extras

\* The second critical section of setResults (extraRequestedResultsMutex)
SetResultsRequest(t) ==
    LET e == thr[t].exec
        node == thr[t].req
    IN
    /\ thr[t].pc = "setRequest"
    /\ IF node = RootNode
       THEN /\ outputRequest' = <<e, node>>
            /\ UNCHANGED extraRequestedResults
       ELSE /\ extraRequestedResults' = extraResultsAfter(extraRequestedResults, node, <<e, node>>)
            /\ UNCHANGED outputRequest
    /\ thr' = [thr EXCEPT ![t].pc = "notify"]
    /\ UNCHANGED <<inputVars, state, aborted, ctorArgs, execVars, reqVars, poolQueue, call, histVars>>

\* notifyTaskInRenderFinished, then run returns
NotifyTaskInRenderFinished(t) ==
    /\ thr[t].pc = "notify"
    /\ thr' = [thr EXCEPT ![t] = IdleRunnable]
    /\ call' = IF t \in Callers THEN [call EXCEPT ![t].pc = "relock"] ELSE call
    /\ UNCHANGED <<inputVars, treeVars, execVars, reqVars, poolQueue, histVars>>

----------------------------------------------------------------------------
(* TreeRender::setRenderAborted and TreeRender::isRenderAborted            *)

\* The largest and the smallest value of the int of a QAtomicInt
MaxInt32 == 2147483647
MinInt32 == -MaxInt32 - 1

\* QAtomicInt::fetchAndAddAcquire: the new value, in two's complement
fetchAndAdd(value, valueToAdd) ==
    IF value > MaxInt32 - valueToAdd
    THEN MinInt32 + (valueToAdd - (MaxInt32 - value) - 1)
    ELSE value + valueToAdd

isRenderAborted == aborted > 0

\* Number of single setRenderAborted calls made in a row
MaxAbortCalls == 3

\* Number of calls of a long run of setRenderAborted calls
AbortBurst == 2^30 - 1

\* One call of setRenderAborted
SetRenderAborted ==
    /\ aborted % AbortBurst < MaxAbortCalls
    /\ aborted' = fetchAndAdd(aborted, 1)
    /\ UNCHANGED <<inputVars, state, outputRequest, extraRequestedResults, ctorArgs,
                   execVars, reqVars, threadVars, histVars>>

\* AbortBurst calls of setRenderAborted in a row, none of which wraps the counter
SetRenderAbortedBurst ==
    /\ aborted >= 0
    /\ aborted <= MaxInt32 - AbortBurst
    /\ aborted' = fetchAndAdd(aborted, AbortBurst)
    /\ UNCHANGED <<inputVars, state, outputRequest, extraRequestedResults, ctorArgs,
                   execVars, reqVars, threadVars, histVars>>

----------------------------------------------------------------------------
\* The steps of the threads on the executions that exist
Run ==
    \/ \E e \in Exec : RequestPassStep(e)
    \/ \E e \in Exec, stat \in {"OK", "Failed"} : RequestPassReturns(e, stat)
    \/ \E c \in Callers, e \in Exec, nTasks \in NTasksArgs : ExecuteAvailableTasks(c, e, nTasks)
    \/ \E c \in Callers : ExecuteLoop(c)
    \/ \E c \in Callers : Relock(c)
    \/ \E w \in Workers : PoolStart(w)
    \/ \E t \in Threads : RunGetStatus(t)
    \/ \E t \in Threads, res \in RetCodes : LaunchNodeRender(t, res)
    \/ \E t \in Threads : OnTaskFinished(t)
    \/ \E t \in Threads : ReadStatusArgument(t)
    \/ \E t \in Threads : SetResultsState(t)
    \/ \E t \in Threads : SetResultsRequest(t)
    \/ \E t \in Threads : NotifyTaskInRenderFinished(t)

Next ==
    \/ CreateMainExecutionData
    \/ Run

NextTree ==
    \/ CreateMainExecutionData
    \/ CreateSubExecutionData
    \/ Run

Spec == Init /\ [][Next]_vars

SpecTree == InitTree /\ [][NextTree]_vars

SpecCallers == InitCallers /\ [][Next]_vars

\* The operations on a tree render, whatever create returned
NextCreate ==
    \/ CreateMainExecutionData
    \/ CreateMainExecutionDataNullArgs
    \/ CreateSubExecutionData
    \/ GetExtraRequestedResultsExecutionData
    \/ Run

SpecCreate == InitCreate /\ [][NextCreate]_vars

\* A main execution, then the sub-executions for the extra nodes
NextExtra ==
    \/ CreateMainExecutionData
    \/ GetExtraRequestedResultsExecutionData
    \/ Run

SpecExtra == InitTree /\ [][NextExtra]_vars

\* A main execution while setRenderAborted is called
NextAbort ==
    \/ Next
    \/ SetRenderAborted
    \/ SetRenderAbortedBurst

SpecAbort == InitFair /\ [][NextAbort]_vars

\* The steps of the runnable a thread is running, and of a caller's loop
ThreadStep(t) ==
    \/ RunGetStatus(t)
    \/ \E res \in RetCodes : LaunchNodeRender(t, res)
    \/ OnTaskFinished(t)
    \/ ReadStatusArgument(t)
    \/ SetResultsState(t)
    \/ SetResultsRequest(t)
    \/ NotifyTaskInRenderFinished(t)

CallerStep(c) == ExecuteLoop(c) \/ Relock(c)

\* Every effect render terminates, threads are scheduled fairly (a thread
\* waiting for dependencyFreeRendersMutex gets it eventually) and the queue
\* manager keeps calling executeAvailableTasks on every execution.
Fairness ==
    /\ WF_vars(CreateMainExecutionData)
    /\ \A e \in Exec : WF_vars(RequestPassStep(e))
    /\ \A e \in Exec : WF_vars(RequestPassReturns(e, "OK"))
    /\ \A e \in Exec :
           SF_vars(\E c \in Callers, nTasks \in NTasksArgs : ExecuteAvailableTasks(c, e, nTasks))
    /\ \A c \in Callers : SF_vars(CallerStep(c))
    /\ \A w \in Workers : WF_vars(PoolStart(w))
    /\ \A t \in Threads : SF_vars(ThreadStep(t))

FairSpec == InitFair /\ [][Next]_vars /\ Fairness

\* A main execution under fair scheduling, with the call of setRenderAborted
\* that aborts the render made at any moment
NextFairAbort ==
    \/ Next
    \/ ~isRenderAborted /\ SetRenderAborted

FairAbortSpec == InitFair /\ [][NextFairAbort]_vars /\ Fairness

TypeOK ==
    /\ state \in RetCodes
    /\ status \in [Exec -> RetCodes]
    /\ \A e \in Exec : dependencyFreeRenders[e] \subseteq Nodes

----------------------------------------------------------------------------
(* Properties                                                              *)

RECURSIVE SumOver(_, _)
SumOver(f, S) ==
    IF S = {} THEN 0
    ELSE LET x == CHOOSE y \in S : TRUE IN f[x] + SumOver(f, S \ {x})

\* The requests for which the critical section of onTaskFinished has run
Finished(e) == {n \in Nodes : hookCount[e][n] > 0}

\* C1: within one execution no runnable is created (hence none started) for
\* a request before onTaskFinished has run, that is removed the task and
\* its dependency links under the execution lock, for every request it
\* depends on.
C1_StartedAfterDependencies ==
    \A e \in Exec, l \in Nodes :
        created[e][l] > 0 => \A d \in PlanDeps(l) : hookCount[e][d] > 0

C1_Witness ==
    \E e \in Exec, l \in Nodes :
        /\ created[e][l] > 0
        /\ Cardinality(PlanDeps(l)) = 2

\* C2: every request in the ready queue of an execution is in its allTasks
\* set and has no dependency left in that execution.
C2_ReadyInAllTasksWithoutDependencies ==
    \A e \in Exec :
        /\ dependencyFreeRenders[e] \subseteq allRenderTasksToProcess[e]
        /\ \A r \in dependencyFreeRenders[e] : getNumDependencies(e, r) = 0

C2_Witness ==
    \E e \in Exec, r \in Nodes :
        /\ r \in dependencyFreeRenders[e]
        /\ PlanDeps(r) # {}
        /\ Finished(e) # {}

\* C3 as stated, for the executions whose request pass succeeded: if the
\* status of the execution is not OK its ready queue is empty.
C3_Original ==
    \A e \in Exec :
        execOutputRequest[e] # NoRequest /\ status[e] # "OK" => dependencyFreeRenders[e] = {}

\* C3 amended: if the status of an execution is not OK, its ready queue holds
\* only requests that were already in it when the status became a failure:
\* nothing is added, and what is queued stays until executeAvailableTasks
\* releases it.
C3_ReadyOnlyShrinksAfterFailure ==
    \A e \in Exec :
        isFailureRetCode(status[e]) => dependencyFreeRenders[e] \subseteq readyAtFailure[e]

C3_Witness ==
    \E e \in Exec :
        /\ isFailureRetCode(status[e])
        /\ Finished(e) # {}
        /\ dependencyFreeRenders[e] # {}

\* C4: once the status of an execution is a failure code, a task completion
\* (that of the failing task included) inserts no request into its ready
\* queue and removes no dependency link.
C4_NoPromotionAfterFailure ==
    [][\A e \in Exec :
          isFailureRetCode(status'[e]) =>
              /\ dependencyFreeRenders'[e] \subseteq dependencyFreeRenders[e]
              /\ dependencies'[e] = dependencies[e]]_vars

C4_Witness ==
    \E e \in Exec, r \in Nodes, l \in Nodes :
        /\ isFailureRetCode(status[e])
        /\ hookCount[e][r] > 0
        /\ reqStatus[e][r] = "Rendered"
        /\ l \in getListeners(e, r)
        /\ dependencies[e][l] = {r}
        /\ l \notin dependencyFreeRenders[e]

C6_Original ==
    \A e \in Exec, n \in Nodes :
        (n \in added[e] /\ execOutputRequest[e] # NoRequest) ~> (reqStatus[e][n] # "NotRendered")

\* C6 amended: every request added to an execution by the request pass
\* eventually leaves the status NotRendered unless the status of the
\* execution becomes a failure code.
C6_RenderedUnlessExecutionFails ==
    \A e \in Exec, n \in Nodes :
        (n \in added[e]) ~> (reqStatus[e][n] # "NotRendered" \/ isFailureRetCode(status[e]))

C6_Witness ==
    \E e \in Exec :
        /\ added[e] # {}
        /\ Cardinality(added[e]) = MaxFairReq
        /\ \A n \in added[e] : reqStatus[e][n] = "Rendered"
        /\ status[e] = "OK"

C8_FailureSticky ==
    [][/\ \A e \in Exec : isFailureRetCode(status[e]) => isFailureRetCode(status'[e])
       /\ isFailureRetCode(state) => isFailureRetCode(state')]_vars

C8_Witness ==
    \E t \in Threads :
        /\ thr[t].pc = "report"
        /\ thr[t].stat = "OK"
        /\ isFailureRetCode(status[thr[t].exec])
        /\ isFailureRetCode(state)

\* C9 as stated: once the status of an execution holds a failure code it
\* keeps that exact code.
C9_FirstFailureWins ==
    [][\A e \in Exec : isFailureRetCode(status[e]) => status'[e] = status[e]]_vars

\* C10 as stated: once the state of the tree render holds the failure code
\* of the execution that failed first, a failure code reported later through
\* setResults does not replace it.
C10_LaterFailureDoesNotReplace ==
    [][isFailureRetCode(state) => state' = state]_vars

\* C11: the task-finished hook of a task of one execution, a failing task
\* included, leaves the status, the allTasks set and the ready queue of every
\* other execution unchanged.
C11_FailureStaysInExecution ==
    [][\A t \in Threads :
          thr[t].pc = "finish" /\ thr'[t].pc = "report" =>
              \A e2 \in Exec \ {thr[t].exec} :
                  /\ status'[e2] = status[e2]
                  /\ allRenderTasksToProcess'[e2] = allRenderTasksToProcess[e2]
                  /\ dependencyFreeRenders'[e2] = dependencyFreeRenders[e2]]_vars

\* One execution has failed in a task and the other one has promoted,
\* launched and completed all its requests with the status OK
C11_Witness ==
    \E e1 \in Exec, e2 \in Exec :
        /\ e1 # e2
        /\ isFailureRetCode(status[e1])
        /\ \E r \in Nodes : hookCount[e1][r] > 0 /\ isFailureRetCode(reqStatus[e1][r])
        /\ status[e2] = "OK"
        /\ Cardinality(added[e2]) > 1
        /\ \A r \in added[e2] : hookCount[e2][r] > 0 /\ reqStatus[e2][r] = "Rendered"

\* C12: setResults adds no key to extraRequestedResults and changes the slot
\* of a node only when it is empty: a slot is written at most once, with a
\* request, and keeps it.
C12_ExtraSlotWrittenOnce ==
    [][/\ DOMAIN extraRequestedResults' = DOMAIN extraRequestedResults
       /\ \A n \in DOMAIN extraRequestedResults :
              \/ extraRequestedResults'[n] = extraRequestedResults[n]
              \/ /\ extraRequestedResults[n] = NoRequest
                 /\ extraRequestedResults'[n] # NoRequest]_vars

\* setResults has been called with a request of another execution for a
\* node whose slot was already filled
C12_Witness ==
    \E t \in Threads, n \in DOMAIN extraRequestedResults :
        /\ thr[t].pc = "notify"
        /\ thr[t].req = n
        /\ extraRequestedResults[n] # NoRequest
        /\ extraRequestedResults[n] # <<thr[t].exec, n>>

\* C13 as stated: once isRenderAborted() returns true it returns true after
\* any number of further setRenderAborted() calls.
C13_AbortMonotonic ==
    [][isRenderAborted => isRenderAborted']_vars

\* C14 as stated, for nTasks = -1: when the call returns, every request
\* that was in the ready queue has been released.  (nTasksRemaining is
\* negative only in a call made with nTasks = -1.)
C14_MinusOneReleasesAll ==
    [][\A c \in Callers :
          /\ call[c].pc = "loop"
          /\ call'[c].pc = "idle"
          /\ call[c].nTasksRemaining < 0
          => dependencyFreeRenders'[call[c].exec] = {}]_vars

\* C15: within one execution at most one runnable is created for a request,
\* also when several threads call executeAvailableTasks and when the
\* dependencies of a request finish concurrently.
C15_OneRunnablePerRequest ==
    \A e \in Exec, r \in Nodes : created[e][r] <= 1

\* The root of a diamond has been released after both its dependencies
\* finished, and the second caller is inside executeAvailableTasks
C15_Witness ==
    \E e \in Exec, r \in Nodes :
        /\ created[e][r] = 1
        /\ Cardinality(PlanDeps(r)) = 2
        /\ \E b \in Nodes : \A d \in PlanDeps(r) : b \in PlanDeps(d)
        /\ call["qm2"].pc = "loop"
        /\ call["qm2"].exec = e

\* C16 as stated: on a tree render that create returned in the Failed state
\* every operation returns an execution without tasks (or none yet), also
\* when init was never run and ctorArgs is null.
C16_FailedCreateShortCircuits ==
    isFailureRetCode(state) /\ ctorArgs = "null" =>
        \A e \in Exec :
            /\ phase[e] \in {"none", "planned"}
            /\ allRenderTasksToProcess[e] = {}
            /\ ~dfrAllocated[e]

\* C17 as stated, for a planning failure: when createExecutionDataInternal
\* returns an execution that failed before any of its tasks finished (the
\* root plane or region could not be resolved, requestRender failed or left
\* no dependency-free request), the tree render is in a failure state.
C17_PlanningFailureFailsTreeRender ==
    \A e \in Exec :
        phase[e] = "planned" /\ isFailureRetCode(status[e]) /\ Finished(e) = {}
            => isFailureRetCode(state)

\* No runnable of the tree render is queued in the pool or running
NoRunnableLeft ==
    /\ poolQueue = <<>>
    /\ \A t \in Threads : thr[t].pc = "idle"

\* C18 as stated: once every runnable dispatched by an execution has
\* finished, its set of launched runnables is empty.
C18_LaunchedRunnablesReleased ==
    \A e \in Exec :
        phase[e] = "planned" /\ NoRunnableLeft => launchedRunnables[e] = {}

\* The sub-execution returned by getExtraRequestedResultsExecutionData has
\* completed all its tasks with the status OK
SubExecutionSucceeded ==
    /\ phase["sub"] = "planned"
    /\ status["sub"] = "OK"
    /\ added["sub"] # {}
    /\ allRenderTasksToProcess["sub"] = {}
    /\ NoRunnableLeft

\* C19 as stated: once the sub-executions returned after a successful main
\* execution have completed successfully the slot of every extra node is
\* filled, the tree root's own node included.
C19_Original ==
    SubExecutionSucceeded /\ status["main"] = "OK" /\ hookCount["main"][RootNode] > 0 =>
        \A n \in DOMAIN extraRequestedResults : extraRequestedResults[n] # NoRequest

\* C19 amended: a sub-execution is returned only for an extra node whose
\* slot the main execution left empty, and once it has completed
\* successfully the slot of every extra node other than the tree root's own
\* node is filled.
C19_ExtraSlotsFilledExceptRoot ==
    /\ phase["sub"] # "none" =>
           /\ execRoot["sub"] \in DOMAIN extraRequestedResults
           /\ extraRequestedResults[execRoot["sub"]] # <<"main", execRoot["sub"]>>
    /\ SubExecutionSucceeded =>
           \A n \in DOMAIN extraRequestedResults \ {RootNode} :
               extraRequestedResults[n] # NoRequest

C19_Witness ==
    /\ SubExecutionSucceeded
    /\ \E n \in DOMAIN extraRequestedResults :
           /\ n # RootNode
           /\ extraRequestedResults[n] = <<"sub", n>>
           /\ hookCount["main"][RootNode] > 0

\* C20: a thread that runs a runnable, whose onTaskFinished takes the
\* mutexes of the tree render in setResults, holds the
\* dependencyFreeRendersMutex of no execution, and no thread holds the
\* dependencyFreeRendersMutex of two executions.
C20_LockOrder ==
    \A t \in Threads :
        /\ thr[t].pc # "idle" => \A e \in Exec : mutex[e] # t
        /\ Cardinality({e \in Exec : mutex[e] = t}) <= 1

\* A runnable run inline by executeAvailableTasks is about to take
\* stateMutex in setResults, while the other execution has tasks left
C20_Witness ==
    \E c \in Callers :
        /\ call[c].pc = "inline"
        /\ thr[c].pc = "setState"
        /\ \E e \in Exec \ {call[c].exec} : allRenderTasksToProcess[e] # {}

\* C21: when a task completes without failure in an execution whose status
\* is OK, then when the critical section of onTaskFinished ends a listener of
\* the task is in the ready queue if and only if every request it depends on
\* has completed.  (In a chain the ready queue is so the one request whose
\* dependency just completed; in a diamond the completion of the shared
\* dependency promotes both branches and the root is promoted by the branch
\* that completes last.)
C21_ListenersPromotedWhenDependenciesDone ==
    [][\A t \in Threads :
          /\ thr[t].pc = "finish"
          /\ thr'[t].pc = "report"
          /\ ~isFailureRetCode(thr[t].stat)
          /\ status[thr[t].exec] = "OK"
          => \A l \in getListeners(thr[t].exec, thr[t].req) :
                 l \in dependencyFreeRenders'[thr[t].exec] <=>
                     \A d \in PlanDeps(l) : hookCount'[thr[t].exec][d] > 0]_vars

\* In a diamond the shared dependency and one branch have completed, the
\* other branch has been promoted and has not completed, and the root is
\* not in the ready queue
C21_Witness ==
    \E e \in Exec, r \in Nodes, a \in Nodes, c \in Nodes, b \in Nodes :
        /\ status[e] = "OK"
        /\ a # c
        /\ PlanDeps(r) = {a, c}
        /\ b \in PlanDeps(a) \cap PlanDeps(c)
        /\ hookCount[e][b] > 0
        /\ hookCount[e][a] > 0
        /\ hookCount[e][c] = 0
        /\ created[e][c] > 0
        /\ r \notin dependencyFreeRenders[e]
        /\ r \in allRenderTasksToProcess[e]

\* The runnables of a request that were created and have not yet called the
\* task-finished hook: in the queue of the pool, or run by a thread that has
\* not reached the hook
BeforeHook == {"run", "render", "finish"}

NotYetFinished(e, r) ==
    Cardinality({i \in DOMAIN poolQueue : poolQueue[i] = <<e, r>>})
        + Cardinality({t \in Threads : /\ thr[t].pc \in BeforeHook
                                       /\ thr[t].exec = e
                                       /\ thr[t].req = r})

\* C22: a runnable calls launchNodeRender if and only if the status of the
\* execution it read at entry is not a failure; with a failure at entry the
\* request is left untouched and the task-finished hook receives that
\* status, otherwise the hook receives the status launchNodeRender returned;
\* and the hook has run exactly once for every runnable created for a
\* request that is no longer queued or on its way to the hook.
C22_RunCallsHookOnce ==
    [][/\ \A t \in Threads :
            LET e == thr[t].exec
                r == thr[t].req
            IN
            /\ thr[t].pc = "run" /\ thr'[t].pc # "run" =>
                   IF isFailureRetCode(status[e])
                   THEN /\ thr'[t].pc = "finish"
                        /\ thr'[t].stat = status[e]
                        /\ reqStatus' = reqStatus
                   ELSE thr'[t].pc = "render"
            /\ thr'[t].pc = "render" => thr[t].pc \in {"run", "render"}
            /\ thr[t].pc = "render" /\ thr'[t].pc # "render" =>
                   /\ thr'[t].pc = "finish"
                   /\ reqStatus'[e][r] = renderedStatus(thr'[t].stat)
            /\ thr[t].pc = "finish" /\ thr'[t].pc # "finish" =>
                   /\ hookCount'[e][r] = hookCount[e][r] + 1
                   /\ status'[e] = IF isFailureRetCode(thr[t].stat) THEN thr[t].stat ELSE status[e]
       /\ \A e \in Exec, r \in Nodes :
            /\ hookCount'[e][r] # hookCount[e][r] =>
                   \E t \in Threads : /\ thr[t].pc = "finish"
                                      /\ thr[t].exec = e
                                      /\ thr[t].req = r
                                      /\ thr'[t].pc # "finish"
            /\ hookCount'[e][r] + NotYetFinished(e, r)' = created'[e][r]]_vars

\* A runnable dispatched to the pool while the execution was OK read a
\* failure at entry: it is about to call the hook with that failure and
\* its request was not rendered
C22_Witness ==
    \E w \in Workers :
        /\ thr[w].pc = "finish"
        /\ isFailureRetCode(thr[w].stat)
        /\ reqStatus[thr[w].exec][thr[w].req] = "NotRendered"
        /\ \E r \in Nodes : hookCount[thr[w].exec][r] > 0

\* C23: in executeAvailableTasks a released request whose status is not
\* NotRendered, or whose execution has a failure status, is run inline by
\* the calling thread, which has released the execution lock and holds it at
\* no time while it runs the runnable; that run is not handed to the pool,
\* not inserted in launchedRunnables and leaves nTasksRemaining and
\* nTasksStarted as they were.  Every other released request is handed to
\* the pool, inserted in launchedRunnables and counted, and not run by the
\* calling thread.
C23_InlineOrPool ==
    [][/\ \A c \in Callers, e \in Exec, r \in Nodes :
            call[c].pc = "loop" /\ call[c].exec = e /\ created'[e][r] > created[e][r] =>
                IF reqStatus[e][r] # "NotRendered" \/ isFailureRetCode(status[e])
                THEN /\ thr'[c] = NewRunnable(e, r)
                     /\ mutex'[e] = Free
                     /\ poolQueue' = poolQueue
                     /\ launchedRunnables' = launchedRunnables
                     /\ call'[c].nTasksRemaining = call[c].nTasksRemaining
                     /\ call'[c].nTasksStarted = call[c].nTasksStarted
                ELSE /\ poolQueue' = Append(poolQueue, <<e, r>>)
                     /\ r \in launchedRunnables'[e]
                     /\ call'[c].nTasksRemaining = call[c].nTasksRemaining - 1
                     /\ call'[c].nTasksStarted = call[c].nTasksStarted + 1
                     /\ thr' = thr
                     /\ mutex' = mutex
       /\ \A c \in Callers :
            thr'[c].pc # "idle" => /\ call'[c].pc = "inline"
                                   /\ mutex'[thr'[c].exec] # c]_vars

\* The calling thread runs inline, in an execution whose status is OK, the
\* runnable of a request that the request pass found in the cache
C23_Witness ==
    \E c \in Callers :
        /\ call[c].pc = "inline"
        /\ thr[c].pc = "finish"
        /\ status[thr[c].exec] = "OK"
        /\ thr[c].req \in cached
        /\ launchedRunnables[thr[c].exec] = {}
        /\ poolQueue = <<>>

\* C24: when a task finishes with a failure code the failure is stored in
\* the status of its execution, in the critical section of onTaskFinished,
\* before setResults stores a failure in the state of the tree render; when
\* notifyTaskInRenderFinished is called for that task the status of the
\* execution and the state of the tree render are both failure codes; and
\* the notification is the last step of every finished task: it comes once,
\* after setResults, from a thread that holds the lock of no execution.
C24_FailureRecordedThenNotified ==
    [][\A t \in Threads :
          LET e == thr[t].exec
              r == thr[t].req
          IN
          /\ thr[t].pc = "finish" /\ thr'[t].pc # "finish" /\ isFailureRetCode(thr[t].stat) =>
                 /\ status'[e] = thr[t].stat
                 /\ state' = state
                 /\ thr'[t].pc = "report"
          /\ state' # state =>
                 \E t2 \in Threads :
                     /\ thr[t2].pc = "setState"
                     /\ thr'[t2].pc = "setRequest"
                     /\ hookCount[thr[t2].exec][thr[t2].req] > 0
                     /\ isFailureRetCode(status[thr[t2].exec])
          /\ thr'[t].pc = "notify" /\ isFailureRetCode(thr'[t].stat) =>
                 /\ isFailureRetCode(status'[thr'[t].exec])
                 /\ isFailureRetCode(state')
          /\ thr'[t].pc = "notify" =>
                 /\ thr[t].pc \in {"setRequest", "notify"}
                 /\ \A x \in Exec : mutex'[x] # t
          /\ thr[t].pc = "report" => thr'[t].pc \in {"report", "setState", "setRequest"}
          /\ thr[t].pc = "setState" => thr'[t].pc \in {"setState", "setRequest"}
          /\ thr[t].pc = "setRequest" => thr'[t].pc \in {"setRequest", "notify"}
          /\ thr[t].pc # "idle" /\ thr'[t].pc = "idle" => thr[t].pc = "notify"]_vars

\* The queue manager is about to be notified for a task whose render
\* failed, from a thread of the pool, while another task of the execution
\* is still on its way
C24_Witness ==
    \E w \in Workers :
        /\ thr[w].pc = "notify"
        /\ isFailureRetCode(thr[w].stat)
        /\ reqStatus[thr[w].exec][thr[w].req] = thr[w].stat
        /\ \E t \in Threads \ {w} : thr[t].pc # "idle"

\* A thread is about to read the status member of an execution for the
\* argument of setResults, which it does without dependencyFreeRendersMutex,
\* while another thread is about to store a failure in it
UnlockedStatusReadRacesWrite ==
    \E t1 \in Threads, t2 \in Threads :
        /\ t1 # t2
        /\ thr[t1].pc = "report"
        /\ thr[t2].pc = "finish"
        /\ thr[t2].exec = thr[t1].exec
        /\ isFailureRetCode(thr[t2].stat)
        /\ \A e \in Exec : mutex[e] # t1

\* C25 as stated, for the status of an execution: in no reachable state can
\* one thread access it without dependencyFreeRendersMutex while another
\* thread writes it.
C25_StatusAccessedUnderMutex ==
    ~UnlockedStatusReadRacesWrite

\* C26: a call of setRenderAborted changes the abort counter and nothing
\* else (no status, allTasks set or ready queue of an execution, not the
\* state of the tree render), and scheduling goes on after it: every request
\* added to the main execution of an aborted render still leaves the status
\* NotRendered unless the status of the execution becomes a failure code,
\* which only a task completion makes it.
C26_AbortOnlySetsFlag ==
    /\ [][aborted' # aborted =>
              UNCHANGED <<inputVars, state, outputRequest, extraRequestedResults, ctorArgs,
                          execVars, reqVars, threadVars, histVars>>]_vars
    /\ (isRenderAborted /\ added["main"] # {}) ~>
           (\/ \A n \in added["main"] : reqStatus["main"][n] # "NotRendered"
            \/ isFailureRetCode(status["main"]))

\* The render is aborted and its main execution has rendered every request
\* and reported the root, with the status OK
C26_Witness ==
    /\ isRenderAborted
    /\ status["main"] = "OK"
    /\ state = "OK"
    /\ Cardinality(added["main"]) = MaxFairReq
    /\ \A n \in added["main"] : reqStatus["main"][n] = "Rendered"
    /\ outputRequest = <<"main", RootNode>>

\* The request of the root effect in the main execution
RootRequest == <<"main", RootNode>>

\* C27 as stated: at the point where the allTasks set of a main execution
\* without failure becomes empty, the outputRequest of the tree render is the
\* request of the root effect.
C27_Original ==
    [][/\ allRenderTasksToProcess["main"] # {}
       /\ allRenderTasksToProcess'["main"] = {}
       /\ status'["main"] = "OK"
       => outputRequest' = RootRequest]_vars

\* C27 amended: in a main execution whose request pass succeeded, unless the
\* status becomes a failure code, allTasks eventually is empty with the
\* ready queue empty and the outputRequest of the tree render the request of
\* the root effect.  The root is the last request to complete; outputRequest
\* is still null when its completion empties allTasks, and it is set by the
\* time the queue manager is notified of that completion.
C27_CompletesWithRootOutput ==
    /\ (execOutputRequest["main"] # NoRequest) ~>
           (\/ isFailureRetCode(status["main"])
            \/ /\ allRenderTasksToProcess["main"] = {}
               /\ dependencyFreeRenders["main"] = {}
               /\ outputRequest = RootRequest)
    /\ [](status["main"] = "OK" /\ hookCount["main"][RootNode] > 0 =>
              /\ allRenderTasksToProcess["main"] = {}
              /\ dependencyFreeRenders["main"] = {}
              /\ \A n \in added["main"] : hookCount["main"][n] > 0)
    /\ [](\A t \in Threads :
              thr[t].pc = "report" /\ thr[t].exec = "main" /\ thr[t].req = RootNode => outputRequest = NoRequest)
    /\ [](\A t \in Threads :
              thr[t].pc = "notify" /\ thr[t].exec = "main" /\ thr[t].req = RootNode => outputRequest = RootRequest)

\* The main execution has completed every request of a tree of MaxFairReq
\* nodes without failure and the root request has been reported
C27_Witness ==
    /\ status["main"] = "OK"
    /\ Cardinality(added["main"]) = MaxFairReq
    /\ allRenderTasksToProcess["main"] = {}
    /\ dependencyFreeRenders["main"] = {}
    /\ outputRequest = RootRequest
    /\ NoRunnableLeft

====
